---- MODULE Spec2Model ----
(***************************************************************************)
(* Device port configuration reconciliation (devicenetwork/dnc.go).        *)
(*                                                                         *)
(* The state is the DeviceNetworkContext; one action per handler           *)
(* (HandleDPCModify, HandleDPCDelete, HandleDNCModify, HandleDNCDelete).   *)
(* Each handler is a pure operator from the context and the event to the   *)
(* new context plus the list of collaborator calls it made; the action     *)
(* installs the new context and records the event in `ev`.  `hist` is a    *)
(* history variable: what the sequence of events so far has accepted.      *)
(* `frames` holds the activations of the DPC handlers when they are run    *)
(* statement by statement (two callers, serialized or not); it stays idle  *)
(* where a handler is one action.                                          *)
(***************************************************************************)
EXTENDS Integers, Sequences, FiniteSets, TLC

VARIABLES ctx, ev, hist, frames

vars == <<ctx, ev, hist, frames>>

(***************************************************************************)
(* Bounds of the model.                                                    *)
(***************************************************************************)
\* PortConfig values are 0..NumConfigs; 0 is types.DevicePortConfig{}
NumConfigs == 2
\* a status carries at most MaxUsable non-link-local addresses
MaxUsable == 1
\* the same for the statuses DoDNSUpdate is applied to on its own
MaxNotifyUsable == 3

(***************************************************************************)
(* Values.                                                                 *)
(***************************************************************************)
\* types.DevicePortConfig, compared with reflect.DeepEqual only
PortConfigs == 0..NumConfigs

\* types.DevicePortConfig{}
EmptyPortConfig == 0

\* types.DeviceNetworkStatus, as reflect.DeepEqual and the address count
\* see it: the number of addresses that are not link-local, and whether
\* there are link-local ones
Statuses == [usable : 0..MaxUsable, linkLocal : BOOLEAN]

\* types.DeviceNetworkStatus{}
EmptyStatus == [usable |-> 0, linkLocal |-> FALSE]

\* types.DeviceNetworkConfig: the uplinks it names
RawConfigs == [Uplink : PortConfigs]

\* types.DeviceNetworkConfig{}
EmptyRawConfig == [Uplink |-> EmptyPortConfig]

\* the keys a DevicePortConfig event can carry: the two reserved ones and
\* two of the "any key" kind
Keys == {"global", "override", "zedagent", "other"}

\* the keys a DeviceNetworkConfig event can carry
ModelKeys == {"model", "othermodel"}

\* what a publication holds under "global": <<>> while nothing was published
\* (Get returns nil), <<v>> once v was
Nil == <<>>

Holding(S) == {Nil} \cup {<<v>> : v \in S}

(***************************************************************************)
(* Collaborators that are not part of dnc.go.                              *)
(***************************************************************************)
\* types.CountLocalAddrAnyNoLinkLocal: the addresses that are not link-local
CountLocalAddrAnyNoLinkLocal(status) == status.usable

\* MakeDevicePortConfig: the deterministic builder, one port per uplink;
\* the default raw configuration builds the default PortConfig
MakeDevicePortConfig(raw) == raw.Uplink

\* MakeDeviceNetworkStatus(config, old): any status, with or without an
\* error; what it returns is an input of the event
ProjectorResults == [status : Statuses, err : BOOLEAN]

(***************************************************************************)
(* DeviceNetworkContext.                                                   *)
(***************************************************************************)
\* PubDeviceNetworkStatus: nil, or a publication holding what was last
\* published under "global"
StatusPublications == [isNil : BOOLEAN, global : Holding(Statuses)]

DeviceNetworkContext ==
    [UsableAddressCount     : 0..MaxUsable,
     ManufacturerModel      : ModelKeys,
     DeviceNetworkConfig    : RawConfigs,
     DevicePortConfig       : PortConfigs,
     DevicePortConfigPrio   : 0..3,
     DeviceNetworkStatus    : Statuses,
     PubDevicePortConfig    : Holding(PortConfigs),
     PubDeviceNetworkStatus : StatusPublications,
     Changed                : BOOLEAN]

\* what a handler did: the context it leaves, how it returned, and the
\* calls it made, in order: per collaborator the arguments of each call, and
\* in `order` the sequence of the calls and of the writes to the active
\* configuration and status
NoCalls == [dhcp |-> <<>>, proj |-> <<>>, led |-> <<>>,
            pubStatus |-> <<>>, pubConfig |-> <<>>, order |-> <<>>]

Outcome(c, ret, calls) == [ctx |-> c, ret |-> ret, calls |-> calls]

(***************************************************************************)
(* Precedence of a key (the switch of both DPC handlers).                  *)
(***************************************************************************)
\* variant: the priorities of the two reserved keys exchanged
PriorityOfSwapped(key) ==
    CASE key = "global"   -> 2
      [] key = "override" -> 3
      [] OTHER            -> 1

\* variant: no case for "global", which takes the default
PriorityOfGlobalAsDefault(key) ==
    CASE key = "override" -> 2
      [] OTHER            -> 1

PriorityOf(key) ==
    CASE key = "global"   -> 3
      [] key = "override" -> 2
      [] OTHER            -> 1

(***************************************************************************)
(* DoDNSUpdate.                                                            *)
(***************************************************************************)
\* variant: a signal on every call, the cached count not being looked at
LedSignalAlways(newAddrCount, oldAddrCount) ==
    IF newAddrCount = 0 THEN <<1>> ELSE <<2>>

\* variant: a signal whenever the count changed
LedSignalOnChange(newAddrCount, oldAddrCount) ==
    IF newAddrCount = oldAddrCount THEN <<>>
    ELSE IF newAddrCount = 0 THEN <<1>>
    ELSE <<2>>

\* the code UpdateLedManagerConfig is called with, if it is called
LedSignal(newAddrCount, oldAddrCount) ==
    IF newAddrCount = 0 /\ oldAddrCount # 0 THEN <<1>>
    ELSE IF newAddrCount # 0 /\ oldAddrCount = 0 THEN <<2>>
    ELSE <<>>

\* the steps of DoDNSUpdate, the count being cached iff cacheCount and the
\* status published iff publish
DoDNSUpdateSteps(c, calls, cacheCount, publish) ==
    LET newAddrCount == CountLocalAddrAnyNoLinkLocal(c.DeviceNetworkStatus)
        led == LedSignal(newAddrCount, c.UsableAddressCount)
        c1 == IF cacheCount
              THEN [c EXCEPT !.UsableAddressCount = newAddrCount]
              ELSE c
        c2 == IF publish
              THEN [c1 EXCEPT !.PubDeviceNetworkStatus.global =
                                  <<c.DeviceNetworkStatus>>]
              ELSE c1
        c3 == [c2 EXCEPT !.Changed = TRUE]
    IN  [ctx   |-> c3,
         calls |-> [calls EXCEPT
                      !.led = calls.led \o led,
                      !.pubStatus = IF publish
                                    THEN Append(calls.pubStatus,
                                                c.DeviceNetworkStatus)
                                    ELSE calls.pubStatus,
                      !.order = calls.order \o <<"DoDNSUpdate">>
                                  \o [i \in 1..Len(led) |->
                                         "UpdateLedManagerConfig"]
                                  \o (IF publish THEN <<"Publish">>
                                      ELSE <<>>)]]

\* variant: the count is cached only when a signal was emitted
DoDNSUpdateCacheOnSignal(c, calls) ==
    DoDNSUpdateSteps(c, calls,
        LedSignal(CountLocalAddrAnyNoLinkLocal(c.DeviceNetworkStatus),
                  c.UsableAddressCount) # <<>>,
        ~c.PubDeviceNetworkStatus.isNil)

\* variant: the status is published only when a signal was emitted
DoDNSUpdatePublishOnSignal(c, calls) ==
    DoDNSUpdateSteps(c, calls, TRUE,
        /\ ~c.PubDeviceNetworkStatus.isNil
        /\ LedSignal(CountLocalAddrAnyNoLinkLocal(c.DeviceNetworkStatus),
                     c.UsableAddressCount) # <<>>)

\* variant: the count is never cached
DoDNSUpdateNoCache(c, calls) ==
    DoDNSUpdateSteps(c, calls, FALSE, ~c.PubDeviceNetworkStatus.isNil)

DoDNSUpdate(c, calls) ==
    LET newAddrCount == CountLocalAddrAnyNoLinkLocal(c.DeviceNetworkStatus)
        led == LedSignal(newAddrCount, c.UsableAddressCount)
        published == ~c.PubDeviceNetworkStatus.isNil
        c1 == [c EXCEPT !.UsableAddressCount = newAddrCount]
        c2 == IF published
              THEN [c1 EXCEPT !.PubDeviceNetworkStatus.global =
                                  <<c.DeviceNetworkStatus>>]
              ELSE c1
        c3 == [c2 EXCEPT !.Changed = TRUE]
    IN  [ctx   |-> c3,
         calls |-> [calls EXCEPT
                      !.led = calls.led \o led,
                      !.pubStatus = IF published
                                    THEN Append(calls.pubStatus,
                                                c.DeviceNetworkStatus)
                                    ELSE calls.pubStatus,
                      !.order = calls.order \o <<"DoDNSUpdate">>
                                  \o [i \in 1..Len(led) |->
                                         "UpdateLedManagerConfig"]
                                  \o (IF published THEN <<"Publish">>
                                      ELSE <<>>)]]

(***************************************************************************)
(* HandleDPCModify.                                                        *)
(***************************************************************************)
\* variant: an equal priority is ignored too (>= for >)
ModifyIgnoredStrict(curPriority, priority) ==
    curPriority # 0 /\ priority >= curPriority

\* variant: the comparison inverted (< for >)
ModifyIgnoredInverted(curPriority, priority) ==
    curPriority # 0 /\ priority < curPriority

\* variant: no early return
ModifyIgnoredNever(curPriority, priority) == FALSE

\* the early return of HandleDPCModify
ModifyIgnored(curPriority, priority) ==
    curPriority # 0 /\ priority > curPriority

\* variant: UpdateDhcpClient is called, the assignment is missing
ReplacePortConfigNoAssign(c, calls, portConfig) ==
    IF c.DevicePortConfig # portConfig
    THEN [ctx   |-> c,
          calls |-> [calls EXCEPT
                       !.dhcp = Append(calls.dhcp,
                                       [new |-> portConfig,
                                        old |-> c.DevicePortConfig]),
                       !.order = Append(calls.order, "UpdateDhcpClient")]]
    ELSE [ctx |-> c, calls |-> calls]

\* variant: the arguments of UpdateDhcpClient are swapped
ReplacePortConfigSwapped(c, calls, portConfig) ==
    IF c.DevicePortConfig # portConfig
    THEN [ctx   |-> [c EXCEPT !.DevicePortConfig = portConfig],
          calls |-> [calls EXCEPT
                       !.dhcp = Append(calls.dhcp,
                                       [new |-> c.DevicePortConfig,
                                        old |-> portConfig]),
                       !.order = calls.order \o
                           <<"UpdateDhcpClient", "DevicePortConfig">>]]
    ELSE [ctx |-> c, calls |-> calls]

\* variant: no DeepEqual test
ReplacePortConfigAlways(c, calls, portConfig) ==
    [ctx   |-> [c EXCEPT !.DevicePortConfig = portConfig],
     calls |-> [calls EXCEPT
                  !.dhcp = Append(calls.dhcp,
                                  [new |-> portConfig,
                                   old |-> c.DevicePortConfig]),
                  !.order = calls.order \o
                      <<"UpdateDhcpClient", "DevicePortConfig">>]]

\* variant: the assignment comes first, so UpdateDhcpClient reads the new
\* configuration as the old one
ReplacePortConfigAssignFirst(c, calls, portConfig) ==
    IF c.DevicePortConfig # portConfig
    THEN [ctx   |-> [c EXCEPT !.DevicePortConfig = portConfig],
          calls |-> [calls EXCEPT
                       !.dhcp = Append(calls.dhcp,
                                       [new |-> portConfig,
                                        old |-> portConfig]),
                       !.order = calls.order \o
                           <<"DevicePortConfig", "UpdateDhcpClient">>]]
    ELSE [ctx |-> c, calls |-> calls]

\* variant: a failed UpdateDhcpClient leaves the old configuration in
\* place (here: it fails whenever an old configuration is replaced)
ReplacePortConfigUnlessDhcpFails(c, calls, portConfig) ==
    IF c.DevicePortConfig # portConfig
    THEN [ctx   |-> IF c.DevicePortConfig = EmptyPortConfig
                    THEN [c EXCEPT !.DevicePortConfig = portConfig]
                    ELSE c,
          calls |-> [calls EXCEPT
                       !.dhcp = Append(calls.dhcp,
                                       [new |-> portConfig,
                                        old |-> c.DevicePortConfig]),
                       !.order = calls.order \o
                           <<"UpdateDhcpClient", "DevicePortConfig">>]]
    ELSE [ctx |-> c, calls |-> calls]

\* the configuration step shared by both DPC handlers: UpdateDhcpClient and
\* the assignment, under the DeepEqual test
ReplacePortConfig(c, calls, portConfig) ==
    IF c.DevicePortConfig # portConfig
    THEN [ctx   |-> [c EXCEPT !.DevicePortConfig = portConfig],
          calls |-> [calls EXCEPT
                       !.dhcp = Append(calls.dhcp,
                                       [new |-> portConfig,
                                        old |-> c.DevicePortConfig]),
                       !.order = calls.order \o
                           <<"UpdateDhcpClient", "DevicePortConfig">>]]
    ELSE [ctx |-> c, calls |-> calls]

\* variant: no DeepEqual test
ReplaceStatusAlways(c, calls, dnStatus) ==
    DoDNSUpdate([c EXCEPT !.DeviceNetworkStatus = dnStatus],
                [calls EXCEPT !.order =
                    Append(calls.order, "DeviceNetworkStatus")])

\* variant: the assignment without DoDNSUpdate
ReplaceStatusQuiet(c, calls, dnStatus) ==
    IF c.DeviceNetworkStatus # dnStatus
    THEN [ctx   |-> [c EXCEPT !.DeviceNetworkStatus = dnStatus],
          calls |-> [calls EXCEPT !.order =
                        Append(calls.order, "DeviceNetworkStatus")]]
    ELSE [ctx |-> c, calls |-> calls]

\* the status step shared by both DPC handlers: the assignment and
\* DoDNSUpdate, under the DeepEqual test
ReplaceStatus(c, calls, dnStatus) ==
    IF c.DeviceNetworkStatus # dnStatus
    THEN DoDNSUpdate([c EXCEPT !.DeviceNetworkStatus = dnStatus],
                     [calls EXCEPT !.order =
                         Append(calls.order, "DeviceNetworkStatus")])
    ELSE [ctx |-> c, calls |-> calls]

\* variant: MakeDeviceNetworkStatus and the status step moved into the
\* branch taken when the configuration changed
HandleDPCModifyProjectOnChange(c, key, portConfig, projected) ==
    LET curPriority == c.DevicePortConfigPrio
        priority == PriorityOf(key)
    IN  IF ModifyIgnored(curPriority, priority)
        THEN Outcome(c, "ignored", NoCalls)
        ELSE
          LET c1 == [c EXCEPT !.DevicePortConfigPrio = priority]
              r2 == ReplacePortConfig(c1, NoCalls, portConfig)
              calls3 == [r2.calls EXCEPT
                           !.proj = Append(r2.calls.proj,
                                      [config |-> portConfig,
                                       old    |-> r2.ctx.DeviceNetworkStatus,
                                       status |-> projected.status,
                                       err    |-> projected.err]),
                           !.order = Append(r2.calls.order,
                                            "MakeDeviceNetworkStatus")]
              r4 == ReplaceStatus(r2.ctx, calls3, projected.status)
          IN  IF c.DevicePortConfig # portConfig
              THEN Outcome(r4.ctx, "done", r4.calls)
              ELSE Outcome(c1, "done", NoCalls)

\* variant: MakeDeviceNetworkStatus is called first, with the configuration
\* still active at that point
HandleDPCModifyProjectFirst(c, key, portConfig, projected) ==
    LET curPriority == c.DevicePortConfigPrio
        priority == PriorityOf(key)
    IN  IF ModifyIgnored(curPriority, priority)
        THEN Outcome(c, "ignored", NoCalls)
        ELSE
          LET c1 == [c EXCEPT !.DevicePortConfigPrio = priority]
              calls2 == [NoCalls EXCEPT
                           !.proj = <<[config |-> c1.DevicePortConfig,
                                       old    |-> c1.DeviceNetworkStatus,
                                       status |-> projected.status,
                                       err    |-> projected.err]>>,
                           !.order = <<"MakeDeviceNetworkStatus">>]
              r3 == ReplacePortConfig(c1, calls2, portConfig)
              r4 == ReplaceStatus(r3.ctx, r3.calls, projected.status)
          IN  Outcome(r4.ctx, "done", r4.calls)

HandleDPCModifyResult(c, key, portConfig, projected) ==
    LET curPriority == c.DevicePortConfigPrio
        priority == PriorityOf(key)
    IN  IF ModifyIgnored(curPriority, priority)
        THEN Outcome(c, "ignored", NoCalls)
        ELSE
          LET c1 == [c EXCEPT !.DevicePortConfigPrio = priority]
              r2 == ReplacePortConfig(c1, NoCalls, portConfig)
              \* MakeDeviceNetworkStatus(portConfig, *ctx.DeviceNetworkStatus)
              calls3 == [r2.calls EXCEPT
                           !.proj = Append(r2.calls.proj,
                                      [config |-> portConfig,
                                       old    |-> r2.ctx.DeviceNetworkStatus,
                                       status |-> projected.status,
                                       err    |-> projected.err]),
                           !.order = Append(r2.calls.order,
                                            "MakeDeviceNetworkStatus")]
              \* dnStatus, _ := ... : the error is dropped
              r4 == ReplaceStatus(r2.ctx, calls3, projected.status)
          IN  Outcome(r4.ctx, "done", r4.calls)

(***************************************************************************)
(* HandleDPCDelete.                                                        *)
(***************************************************************************)
\* variant: the test of HandleDPCModify copied into HandleDPCDelete
DeleteIgnoredLower(curPriority, priority) ==
    curPriority # 0 /\ priority > curPriority

\* the early return of HandleDPCDelete
DeleteIgnored(curPriority, priority) ==
    curPriority # priority

\* variant: the priority is not reset
HandleDPCDeleteKeepPrio(c, key) ==
    LET curPriority == c.DevicePortConfigPrio
        priority == PriorityOf(key)
    IN  IF DeleteIgnored(curPriority, priority)
        THEN Outcome(c, "ignored", NoCalls)
        ELSE
          LET r2 == ReplacePortConfig(c, NoCalls, EmptyPortConfig)
              r3 == ReplaceStatus(r2.ctx, r2.calls, EmptyStatus)
          IN  Outcome(r3.ctx, "done", r3.calls)

\* variant: the status is left as it is
HandleDPCDeleteKeepStatus(c, key) ==
    LET curPriority == c.DevicePortConfigPrio
        priority == PriorityOf(key)
    IN  IF DeleteIgnored(curPriority, priority)
        THEN Outcome(c, "ignored", NoCalls)
        ELSE
          LET c1 == [c EXCEPT !.DevicePortConfigPrio = 0]
              r2 == ReplacePortConfig(c1, NoCalls, EmptyPortConfig)
          IN  Outcome(r2.ctx, "done", r2.calls)

\* variant: the switch of HandleDPCDelete has the cases of the two reserved
\* keys exchanged
HandleDPCDeleteOtherSwitch(c, key) ==
    LET curPriority == c.DevicePortConfigPrio
        priority == PriorityOfSwapped(key)
    IN  IF DeleteIgnored(curPriority, priority)
        THEN Outcome(c, "ignored", NoCalls)
        ELSE
          LET c1 == [c EXCEPT !.DevicePortConfigPrio = 0]
              r2 == ReplacePortConfig(c1, NoCalls, EmptyPortConfig)
              r3 == ReplaceStatus(r2.ctx, r2.calls, EmptyStatus)
          IN  Outcome(r3.ctx, "done", r3.calls)

HandleDPCDeleteResult(c, key) ==
    LET curPriority == c.DevicePortConfigPrio
        priority == PriorityOf(key)
    IN  IF DeleteIgnored(curPriority, priority)
        THEN Outcome(c, "ignored", NoCalls)
        ELSE
          LET c1 == [c EXCEPT !.DevicePortConfigPrio = 0]
              r2 == ReplacePortConfig(c1, NoCalls, EmptyPortConfig)
              r3 == ReplaceStatus(r2.ctx, r2.calls, EmptyStatus)
          IN  Outcome(r3.ctx, "done", r3.calls)

(***************************************************************************)
(* HandleDNCModify and HandleDNCDelete (the legacy single-source path).    *)
(***************************************************************************)
\* c, _ := ctx.PubDevicePortConfig.Get("global"), empty when there is none
OldPublishedConfig(c) ==
    IF c.PubDevicePortConfig # Nil THEN c.PubDevicePortConfig[1]
    ELSE EmptyPortConfig

\* the key the rebuilt PortConfig is published under, which is the key its
\* subscriber is handed
PublishedKey == "global"

\* variant: the old value is not read from the publication
PublishRebuiltIgnoresGet(c, raw) ==
    LET oldConfig == EmptyPortConfig
        c1 == [c EXCEPT !.DeviceNetworkConfig = raw]
        portConfig == MakeDevicePortConfig(raw)
    IN  IF oldConfig # portConfig
        THEN Outcome([c1 EXCEPT !.PubDevicePortConfig = <<portConfig>>], "done",
                     [NoCalls EXCEPT !.pubConfig = <<portConfig>>,
                                     !.order = <<"Publish">>])
        ELSE Outcome(c1, "done", NoCalls)

\* variant: published without the DeepEqual test
PublishRebuiltAlways(c, raw) ==
    LET c1 == [c EXCEPT !.DeviceNetworkConfig = raw]
        portConfig == MakeDevicePortConfig(raw)
    IN  Outcome([c1 EXCEPT !.PubDevicePortConfig = <<portConfig>>], "done",
                [NoCalls EXCEPT !.pubConfig = <<portConfig>>,
                                !.order = <<"Publish">>])

\* variant: the rebuilt PortConfig is also installed as the active one
PublishRebuiltInstall(c, raw) ==
    LET oldConfig == OldPublishedConfig(c)
        portConfig == MakeDevicePortConfig(raw)
        c1 == [c EXCEPT !.DeviceNetworkConfig = raw,
                        !.DevicePortConfig = portConfig]
    IN  IF oldConfig # portConfig
        THEN Outcome([c1 EXCEPT !.PubDevicePortConfig = <<portConfig>>], "done",
                     [NoCalls EXCEPT !.pubConfig = <<portConfig>>,
                                     !.order = <<"Publish">>])
        ELSE Outcome(c1, "done", NoCalls)

\* store the raw configuration, rebuild, publish under the DeepEqual test
PublishRebuilt(c, raw) ==
    LET oldConfig == OldPublishedConfig(c)
        c1 == [c EXCEPT !.DeviceNetworkConfig = raw]
        portConfig == MakeDevicePortConfig(raw)
    IN  IF oldConfig # portConfig
        THEN Outcome([c1 EXCEPT !.PubDevicePortConfig = <<portConfig>>], "done",
                     [NoCalls EXCEPT !.pubConfig = <<portConfig>>,
                                     !.order = <<"Publish">>])
        ELSE Outcome(c1, "done", NoCalls)

\* variant: no test of the key
HandleDNCModifyAnyKey(c, key, config) ==
    PublishRebuilt(c, config)

HandleDNCModifyResult(c, key, config) ==
    IF key # c.ManufacturerModel
    THEN Outcome(c, "ignored", NoCalls)
    ELSE PublishRebuilt(c, config)

\* variant: the active precedence is reset as HandleDPCDelete does
HandleDNCDeleteResetsPrio(c, key) ==
    IF key # c.ManufacturerModel
    THEN Outcome(c, "ignored", NoCalls)
    ELSE LET r == PublishRebuilt(c, EmptyRawConfig)
         IN  Outcome([r.ctx EXCEPT !.DevicePortConfigPrio = 0], "done",
                     r.calls)

HandleDNCDeleteResult(c, key) ==
    IF key # c.ManufacturerModel
    THEN Outcome(c, "ignored", NoCalls)
    ELSE PublishRebuilt(c, EmptyRawConfig)

(***************************************************************************)
(* The state machine.                                                      *)
(***************************************************************************)
\* the record of the last event: what was delivered, the context and the
\* history before it, and what the handler did
Event(op, key, cfg, r) ==
    [op |-> op, key |-> key, cfg |-> cfg, pre |-> ctx, preHist |-> hist,
     ret |-> r.ret, calls |-> r.calls]

\* the context as the agents construct it: zero values, the publication
\* of the status present or not
InitContext(statusPublished) ==
    [UsableAddressCount     |-> 0,
     ManufacturerModel      |-> "model",
     DeviceNetworkConfig    |-> EmptyRawConfig,
     DevicePortConfig       |-> EmptyPortConfig,
     DevicePortConfigPrio   |-> 0,
     DeviceNetworkStatus    |-> EmptyStatus,
     PubDevicePortConfig    |-> Nil,
     PubDeviceNetworkStatus |-> [isNil |-> ~statusPublished, global |-> Nil],
     Changed                |-> FALSE]

\* history: whether a Modify was ever accepted, and the most recently
\* accepted Modify (its key, payload and precedence), forgotten when a
\* Delete is accepted
InitHist == [modifyAccepted |-> FALSE, owner |-> <<>>]

HistAfterModify(h, key, portConfig, r) ==
    IF r.ret = "done"
    THEN [modifyAccepted |-> TRUE,
          owner |-> <<[key |-> key, cfg |-> portConfig,
                       prio |-> PriorityOf(key)]>>]
    ELSE h

HistAfterDelete(h, r) ==
    IF r.ret = "done" THEN [h EXCEPT !.owner = <<>>] ELSE h

\* the callers of the DPC handlers when they run statement by statement
Callers == {"a", "b"}

\* an activation of HandleDPCModify or HandleDPCDelete: where it is (pc),
\* its arguments, its locals (curPriority, priority, dnStatus), and as
\* history what it was delivered to (pre), what the projector returned to
\* it, the calls it made, how and on what context it returned (ret, post),
\* and whether it ran while the other caller's activation was running
IdleFrame ==
    [pc          |-> "idle",
     op          |-> "none",
     key         |-> "",
     cfg         |-> EmptyPortConfig,
     curPriority |-> 0,
     priority    |-> 0,
     dnStatus    |-> EmptyStatus,
     projected   |-> [status |-> EmptyStatus, err |-> FALSE],
     calls       |-> NoCalls,
     ret         |-> "none",
     pre         |-> <<>>,
     post        |-> <<>>,
     overlapped  |-> FALSE]

NoFrames == [p \in Callers |-> IdleFrame]

Init ==
    \E statusPublished \in BOOLEAN :
        /\ ctx = InitContext(statusPublished)
        /\ hist = InitHist
        /\ ev = [op |-> "none", key |-> "", cfg |-> EmptyPortConfig,
                 pre |-> ctx, preHist |-> hist,
                 ret |-> "none", calls |-> NoCalls]
        /\ frames = NoFrames

\* one delivery of HandleDPCModify; r is what the handler returns for it
DPCModifyEvent(key, portConfig, projected) ==
    \E r \in {HandleDPCModifyResult(ctx, key, portConfig, projected)} :
        /\ ctx' = r.ctx
        /\ hist' = HistAfterModify(hist, key, portConfig, r)
        /\ ev' = Event("DPCModify", key, portConfig, r)
        /\ UNCHANGED frames

\* in each action r is what the handler returns for the event
HandleDPCModify ==
    \E key \in Keys, portConfig \in PortConfigs, projected \in ProjectorResults :
        DPCModifyEvent(key, portConfig, projected)

HandleDPCDelete ==
    \E key \in Keys :
        \E r \in {HandleDPCDeleteResult(ctx, key)} :
            /\ ctx' = r.ctx
            /\ hist' = HistAfterDelete(hist, r)
            /\ ev' = Event("DPCDelete", key, EmptyPortConfig, r)
            /\ UNCHANGED frames

HandleDNCModify ==
    \E key \in ModelKeys, config \in RawConfigs :
        \E r \in {HandleDNCModifyResult(ctx, key, config)} :
            /\ ctx' = r.ctx
            /\ hist' = hist
            /\ ev' = Event("DNCModify", key, config, r)
            /\ UNCHANGED frames

HandleDNCDelete ==
    \E key \in ModelKeys :
        \E r \in {HandleDNCDeleteResult(ctx, key)} :
            /\ ctx' = r.ctx
            /\ hist' = hist
            /\ ev' = Event("DNCDelete", key, EmptyRawConfig, r)
            /\ UNCHANGED frames

\* all four handlers
Next ==
    \/ HandleDPCModify
    \/ HandleDPCDelete
    \/ HandleDNCModify
    \/ HandleDNCDelete

Spec == Init /\ [][Next]_vars

\* the reconciliation engine alone: the events of the DevicePortConfig
\* subscriptions
EngineNext ==
    \/ HandleDPCModify
    \/ HandleDPCDelete

EngineSpec == Init /\ [][EngineNext]_vars

(***************************************************************************)
(* The legacy path next to the engine: all four handlers, the projector    *)
(* returning no error and no link-local address.                           *)
(***************************************************************************)
PlainProjections ==
    {p \in ProjectorResults : ~p.err /\ ~p.status.linkLocal}

HandleDPCModifyPlain ==
    \E key \in Keys, portConfig \in PortConfigs,
       projected \in PlainProjections :
        DPCModifyEvent(key, portConfig, projected)

LegacyNext ==
    \/ HandleDPCModifyPlain
    \/ HandleDPCDelete
    \/ HandleDNCModify
    \/ HandleDNCDelete

LegacySpec == Init /\ [][LegacyNext]_vars

(***************************************************************************)
(* The engine with the history of what its collaborators were last told:   *)
(* the last indicator signal and the new-configuration argument of the     *)
(* last UpdateDhcpClient call.  The projector returns no error here (the   *)
(* handler drops it).                                                      *)
(***************************************************************************)
NoErrorProjections == {p \in ProjectorResults : ~p.err}

ChainInitHist ==
    [modifyAccepted |-> FALSE, owner |-> <<>>,
     lastSignal |-> Nil, lastDhcp |-> Nil]

\* h1 is the history of acceptance after the event, calls what it called
ChainHistAfter(h, h1, calls) ==
    [modifyAccepted |-> h1.modifyAccepted,
     owner          |-> h1.owner,
     lastSignal     |-> IF calls.led = <<>> THEN h.lastSignal
                        ELSE <<calls.led[Len(calls.led)]>>,
     lastDhcp       |-> IF calls.dhcp = <<>> THEN h.lastDhcp
                        ELSE <<calls.dhcp[Len(calls.dhcp)].new>>]

ChainInit ==
    \E statusPublished \in BOOLEAN :
        /\ ctx = InitContext(statusPublished)
        /\ hist = ChainInitHist
        /\ ev = [op |-> "none", key |-> "", cfg |-> EmptyPortConfig,
                 pre |-> ctx, preHist |-> hist,
                 ret |-> "none", calls |-> NoCalls]
        /\ frames = NoFrames

ChainModify ==
    \E key \in Keys, portConfig \in PortConfigs,
       projected \in NoErrorProjections :
        \E r \in {HandleDPCModifyResult(ctx, key, portConfig, projected)} :
            /\ ctx' = r.ctx
            /\ hist' = ChainHistAfter(hist,
                           HistAfterModify(hist, key, portConfig, r), r.calls)
            /\ ev' = Event("DPCModify", key, portConfig, r)
            /\ UNCHANGED frames

ChainDelete ==
    \E key \in Keys :
        \E r \in {HandleDPCDeleteResult(ctx, key)} :
            /\ ctx' = r.ctx
            /\ hist' = ChainHistAfter(hist, HistAfterDelete(hist, r), r.calls)
            /\ ev' = Event("DPCDelete", key, EmptyPortConfig, r)
            /\ UNCHANGED frames

ChainNext ==
    \/ ChainModify
    \/ ChainDelete

ChainSpec == ChainInit /\ [][ChainNext]_vars

(***************************************************************************)
(* DoDNSUpdate on its own: applied once to a context as it is at the call  *)
(* sites (dnc.go 129 and 173), where DeviceNetworkStatus was just replaced *)
(* by a different status and UsableAddressCount is still the count of the  *)
(* replaced one.                                                           *)
(***************************************************************************)
NotifyStatuses == [usable : 0..MaxNotifyUsable, linkLocal : BOOLEAN]

NotifyContext(statusPublished, old, new) ==
    [InitContext(statusPublished) EXCEPT
        !.DeviceNetworkStatus = new,
        !.UsableAddressCount = CountLocalAddrAnyNoLinkLocal(old),
        !.Changed = (old # EmptyStatus),
        !.PubDeviceNetworkStatus.global =
            IF statusPublished /\ old # EmptyStatus THEN <<old>> ELSE Nil]

NotifyInit ==
    \E statusPublished \in BOOLEAN, old \in NotifyStatuses,
       new \in NotifyStatuses :
        /\ old # new
        /\ ctx = NotifyContext(statusPublished, old, new)
        /\ hist = InitHist
        /\ ev = [op |-> "none", key |-> "", cfg |-> EmptyPortConfig,
                 pre |-> ctx, preHist |-> hist,
                 ret |-> "none", calls |-> NoCalls]
        /\ frames = NoFrames

DoDNSUpdateStep ==
    /\ ev.op = "none"
    /\ \E r \in {DoDNSUpdate(ctx, NoCalls)} :
           /\ ctx' = r.ctx
           /\ hist' = hist
           /\ ev' = Event("DoDNSUpdate", "", EmptyPortConfig,
                          [ret |-> "done", calls |-> r.calls])
           /\ UNCHANGED frames

NotifySpec == NotifyInit /\ [][DoDNSUpdateStep]_vars

(***************************************************************************)
(* Scenario A: four Modify events with four different configurations,      *)
(* delivered in this order to a freshly constructed context.               *)
(***************************************************************************)
ScenarioA ==
    <<[key |-> "global",   cfg |-> 1],
      [key |-> "override", cfg |-> 2],
      [key |-> "zedagent", cfg |-> 3],
      [key |-> "global",   cfg |-> 4]>>

\* the i-th event is delivered after the (i-1)-th
ScenarioAStep ==
    \E i \in 1..Len(ScenarioA), projected \in ProjectorResults :
        /\ IF i = 1 THEN ev.op = "none"
           ELSE /\ ev.op = "DPCModify"
                /\ ev.key = ScenarioA[i-1].key
                /\ ev.cfg = ScenarioA[i-1].cfg
        /\ DPCModifyEvent(ScenarioA[i].key, ScenarioA[i].cfg, projected)

ScenarioASpec == Init /\ [][ScenarioAStep]_vars

(***************************************************************************)
(* The DPC handlers statement by statement.  Two callers deliver one event *)
(* each, either with nothing to serialize them, so that the second handler *)
(* may start while the first is between two statements, or serialized by   *)
(* the transport.                                                          *)
(***************************************************************************)
InFlight(p) == frames[p].pc \notin {"idle", "returned"}

Returned(p) == frames[p].pc = "returned"

\* the caller hands its handler an event; the callers being alike, "a" is
\* the one that delivers first
Deliver(p) ==
    /\ frames[p].pc = "idle"
    /\ p = "b" => frames["a"].pc # "idle"
    /\ \E op \in {"DPCModify", "DPCDelete"}, key \in Keys,
          portConfig \in PortConfigs :
           /\ op = "DPCDelete" => portConfig = EmptyPortConfig
           /\ frames' =
                  [q \in Callers |->
                     IF q = p
                     THEN [IdleFrame EXCEPT
                             !.pc = "read", !.op = op, !.key = key,
                             !.cfg = portConfig, !.pre = <<ctx>>,
                             !.overlapped =
                                 \E o \in Callers \ {p} : InFlight(o)]
                     ELSE [frames[q] EXCEPT
                             !.overlapped = @ \/ InFlight(q)]]
    /\ UNCHANGED <<ctx, ev, hist>>

\* curPriority := ctx.DevicePortConfigPrio and the switch on the key
ReadPriority(p) ==
    /\ frames[p].pc = "read"
    /\ frames' = [frames EXCEPT
                    ![p].curPriority = ctx.DevicePortConfigPrio,
                    ![p].priority = PriorityOf(frames[p].key),
                    ![p].pc = "test"]
    /\ UNCHANGED <<ctx, ev, hist>>

\* the early return
TestPriority(p) ==
    /\ frames[p].pc = "test"
    /\ frames' =
           IF IF frames[p].op = "DPCModify"
              THEN ModifyIgnored(frames[p].curPriority, frames[p].priority)
              ELSE DeleteIgnored(frames[p].curPriority, frames[p].priority)
           THEN [frames EXCEPT ![p].pc = "returned",
                               ![p].ret = "ignored",
                               ![p].post = <<ctx>>]
           ELSE [frames EXCEPT ![p].pc = "setprio"]
    /\ UNCHANGED <<ctx, ev, hist>>

\* ctx.DevicePortConfigPrio = priority, or = 0 in HandleDPCDelete
SetPriority(p) ==
    /\ frames[p].pc = "setprio"
    /\ ctx' = [ctx EXCEPT !.DevicePortConfigPrio =
                  IF frames[p].op = "DPCModify" THEN frames[p].priority
                  ELSE 0]
    /\ frames' = [frames EXCEPT ![p].pc = "config"]
    /\ UNCHANGED <<ev, hist>>

\* the configuration step; HandleDPCDelete goes on with the empty status
ReplaceConfigStep(p) ==
    /\ frames[p].pc = "config"
    /\ \E r \in {ReplacePortConfig(ctx, frames[p].calls, frames[p].cfg)} :
           /\ ctx' = r.ctx
           /\ frames' =
                  IF frames[p].op = "DPCModify"
                  THEN [frames EXCEPT ![p].calls = r.calls,
                                      ![p].pc = "project"]
                  ELSE [frames EXCEPT ![p].calls = r.calls,
                                      ![p].dnStatus = EmptyStatus,
                                      ![p].pc = "status"]
    /\ UNCHANGED <<ev, hist>>

\* dnStatus, _ := MakeDeviceNetworkStatus(portConfig, *ctx.DeviceNetworkStatus)
ProjectStep(p) ==
    /\ frames[p].pc = "project"
    /\ \E projected \in PlainProjections :
           frames' = [frames EXCEPT
               ![p].dnStatus = projected.status,
               ![p].projected = projected,
               ![p].calls =
                   [@ EXCEPT
                      !.proj = Append(@, [config |-> frames[p].cfg,
                                          old    |-> ctx.DeviceNetworkStatus,
                                          status |-> projected.status,
                                          err    |-> projected.err]),
                      !.order = Append(@, "MakeDeviceNetworkStatus")],
               ![p].pc = "status"]
    /\ UNCHANGED <<ctx, ev, hist>>

\* variant: the status step goes back to the projector until the status
\* it returns is the active one
ReplaceStatusStepRetry(p) ==
    /\ frames[p].pc = "status"
    /\ \E r \in {ReplaceStatus(ctx, frames[p].calls, frames[p].dnStatus)} :
           /\ ctx' = r.ctx
           /\ frames' =
                  IF r.ctx # ctx /\ frames[p].op = "DPCModify"
                  THEN [frames EXCEPT ![p].calls = r.calls,
                                      ![p].pc = "project"]
                  ELSE [frames EXCEPT ![p].calls = r.calls,
                                      ![p].pc = "returned",
                                      ![p].ret = "done",
                                      ![p].post = <<r.ctx>>]
    /\ UNCHANGED <<ev, hist>>

\* the status step, and the return
ReplaceStatusStep(p) ==
    /\ frames[p].pc = "status"
    /\ \E r \in {ReplaceStatus(ctx, frames[p].calls, frames[p].dnStatus)} :
           /\ ctx' = r.ctx
           /\ frames' = [frames EXCEPT ![p].calls = r.calls,
                                       ![p].pc = "returned",
                                       ![p].ret = "done",
                                       ![p].post = <<r.ctx>>]
    /\ UNCHANGED <<ev, hist>>

\* the next statement of the handler p runs
Step(p) ==
    \/ ReadPriority(p)
    \/ TestPriority(p)
    \/ SetPriority(p)
    \/ ReplaceConfigStep(p)
    \/ ProjectStep(p)
    \/ ReplaceStatusStep(p)

\* nothing serializes the two callers
UnserializedNext == \E p \in Callers : Deliver(p) \/ Step(p)

UnserializedSpec == Init /\ [][UnserializedNext]_vars

\* the transport serializes delivery: an event is delivered when no
\* handler is running
DeliverSerialized(p) ==
    /\ \A o \in Callers : ~InFlight(o)
    /\ Deliver(p)

SerializedNext == \E p \in Callers : DeliverSerialized(p) \/ Step(p)

\* a handler that was started runs on: every collaborator call returns
SerializedSpec ==
    /\ Init
    /\ [][SerializedNext]_vars
    /\ \A p \in Callers : WF_vars(Step(p))

TypeOK ==
    /\ ctx \in DeviceNetworkContext
    /\ ev.pre \in DeviceNetworkContext
    /\ ev.ret \in {"none", "ignored", "done"}
    /\ hist.modifyAccepted \in BOOLEAN
    /\ \A p \in Callers :
           frames[p].pc \in {"idle", "read", "test", "setprio", "config",
                             "project", "status", "returned"}

(***************************************************************************)
(* Properties.  They speak of the last event `ev`: the context before it   *)
(* (ev.pre), the context after it (ctx) and the calls the handler made.    *)
(***************************************************************************)
IsModify == ev.op = "DPCModify"
IsDelete == ev.op = "DPCDelete"
Accepted == ev.ret = "done"
Ignored  == ev.ret = "ignored"

\* the precedence of the event's key and the active precedence before it
EvPrio  == PriorityOf(ev.key)
PrePrio == ev.pre.DevicePortConfigPrio

\* the key that installed the active configuration before the event, if any
PreOwned == ev.preHist.owner # <<>>
PreOwnerKey == ev.preHist.owner[1].key
PreOwnerPrio == ev.preHist.owner[1].prio

\* C1: HandleDPCModify accepts an event iff the active precedence is 0 or
\* the event's precedence is <= the active precedence; a rejected event
\* leaves the whole context unchanged and makes no collaborator call.
C1_ModifyAcceptance ==
    IsModify =>
        /\ Accepted <=> (PrePrio = 0 \/ EvPrio <= PrePrio)
        /\ Ignored <=> (PrePrio # 0 /\ EvPrio > PrePrio)
        /\ (PrePrio # 0 /\ EvPrio > PrePrio) =>
               (ctx = ev.pre /\ ev.calls = NoCalls)

\* a Modify with another payload was rejected
C1_Witness ==
    /\ IsModify /\ Ignored
    /\ PrePrio # 0 /\ EvPrio > PrePrio
    /\ ev.cfg # ev.pre.DevicePortConfig

\* C2: while no Delete has been accepted after it, the active configuration
\* is the payload of the most recently accepted Modify and the active
\* precedence is the precedence of that event (in particular after any
\* sequence of Modify events alone).
C2_ActiveIsLastAccepted ==
    hist.owner # <<>> =>
        /\ ctx.DevicePortConfig = hist.owner[1].cfg
        /\ ctx.DevicePortConfigPrio = hist.owner[1].prio

\* a Modify was rejected after one with another payload had been accepted
C2_Witness ==
    /\ IsModify /\ Ignored
    /\ hist.owner # <<>>
    /\ hist.owner[1].cfg # ev.cfg
    /\ hist.owner[1].cfg # EmptyPortConfig

\* C3: HandleDPCDelete is accepted iff the precedence of the deleting key
\* equals the active precedence; otherwise (also with active precedence 0)
\* the whole context is unchanged and no collaborator is called.
C3_DeleteAcceptance ==
    IsDelete =>
        /\ Accepted <=> (EvPrio = PrePrio)
        /\ Ignored <=> (EvPrio # PrePrio)
        /\ EvPrio # PrePrio => (ctx = ev.pre /\ ev.calls = NoCalls)

\* a Delete at a non-owning precedence was rejected while a configuration
\* was active
C3_Witness ==
    /\ IsDelete /\ Ignored
    /\ PrePrio # 0 /\ EvPrio # PrePrio
    /\ ev.pre.DevicePortConfig # EmptyPortConfig

\* the DHCP call of an accepted Delete: once with (empty, previous), when
\* the previous configuration was not empty
DeleteDhcpCall ==
    ev.pre.DevicePortConfig # EmptyPortConfig =>
        ev.calls.dhcp = <<[new |-> EmptyPortConfig,
                           old |-> ev.pre.DevicePortConfig]>>

\* C4 as stated: after an accepted Delete the active precedence is 0, the
\* active configuration is empty, the DHCP collaborator was called once
\* with (empty, previous) if the previous configuration was not empty, and
\* the status was published iff it changed.
C4_AsStated ==
    (IsDelete /\ Accepted) =>
        /\ ctx.DevicePortConfigPrio = 0
        /\ ctx.DevicePortConfig = EmptyPortConfig
        /\ DeleteDhcpCall
        /\ (ev.calls.pubStatus # <<>>) <=>
               (ctx.DeviceNetworkStatus # ev.pre.DeviceNetworkStatus)

\* C4, amended: as C4, but the status is published (once) iff it changed
\* and the context has a status publication (PubDeviceNetworkStatus is not
\* nil); without one nothing is published.
C4_DeleteEffect ==
    (IsDelete /\ Accepted) =>
        /\ ctx.DevicePortConfigPrio = 0
        /\ ctx.DevicePortConfig = EmptyPortConfig
        /\ DeleteDhcpCall
        /\ ev.calls.pubStatus =
               IF /\ ctx.DeviceNetworkStatus # ev.pre.DeviceNetworkStatus
                  /\ ~ev.pre.PubDeviceNetworkStatus.isNil
               THEN <<ctx.DeviceNetworkStatus>>
               ELSE <<>>

\* an accepted Delete cleared a non-empty configuration and a non-empty
\* status, and published
C4_Witness ==
    /\ IsDelete /\ Accepted
    /\ ev.pre.DevicePortConfig # EmptyPortConfig
    /\ ev.pre.DeviceNetworkStatus # EmptyStatus
    /\ ev.calls.pubStatus # <<>>

\* C5: the Modify that follows an accepted Delete is accepted, whatever its
\* source, and becomes the active configuration with its own precedence.
C5_ModifyAfterDelete ==
    [][(IsDelete /\ Accepted /\ ev'.op = "DPCModify") =>
           /\ ev'.ret = "done"
           /\ ctx'.DevicePortConfig = ev'.cfg
           /\ ctx'.DevicePortConfigPrio = PriorityOf(ev'.key)]_vars

\* a Modify of "global" was accepted in the unset state a Delete left
C5_Witness ==
    /\ IsModify /\ Accepted
    /\ ev.key = "global"
    /\ PrePrio = 0
    /\ ev.preHist.modifyAccepted
    /\ ctx.DevicePortConfig # EmptyPortConfig

\* C6 as stated: the active precedence is 0 iff no Modify has ever been
\* accepted.
C6_AsStated ==
    (ctx.DevicePortConfigPrio = 0) <=> ~hist.modifyAccepted

\* C6, amended: the active precedence is 0 iff no Modify has been accepted
\* since the engine started or since the most recent accepted Delete.
C6_UnsetIffNoOwner ==
    (ctx.DevicePortConfigPrio = 0) <=> (hist.owner = <<>>)

\* the precedence is 0 again although a Modify had been accepted
C6_Witness ==
    /\ ctx.DevicePortConfigPrio = 0
    /\ hist.modifyAccepted
    /\ IsDelete /\ Accepted

\* C7 as stated: a Delete from a key that did not install the active
\* configuration (none did, or another key, also one of the same
\* precedence tier) leaves the active configuration and precedence
\* unchanged.
C7_AsStated ==
    (IsDelete /\ (~PreOwned \/ PreOwnerKey # ev.key)) =>
        /\ ctx.DevicePortConfig = ev.pre.DevicePortConfig
        /\ ctx.DevicePortConfigPrio = ev.pre.DevicePortConfigPrio

\* C7, amended: a Delete from a key that did not install the active
\* configuration leaves the context unchanged when its precedence differs
\* from that of the installing key (or no configuration is installed); a
\* Delete from another key of the same precedence tier is accepted and
\* clears the active configuration and precedence.
C7_DeleteByOtherKey ==
    (IsDelete /\ (~PreOwned \/ PreOwnerKey # ev.key)) =>
        IF PreOwned /\ PreOwnerPrio = EvPrio
        THEN /\ Accepted
             /\ ctx.DevicePortConfig = EmptyPortConfig
             /\ ctx.DevicePortConfigPrio = 0
        ELSE /\ Ignored
             /\ ctx = ev.pre

\* a Delete from another key of the same tier cleared the configuration
C7_Witness ==
    /\ IsDelete /\ Accepted
    /\ PreOwned /\ PreOwnerKey # ev.key
    /\ ev.pre.DevicePortConfig # EmptyPortConfig
    /\ ctx.DevicePortConfig = EmptyPortConfig

\* C8: a Modify whose precedence equals the active precedence is accepted
\* and takes over, whichever key installed the current configuration.
C8_SamePrecedenceTakesOver ==
    (IsModify /\ PrePrio # 0 /\ EvPrio = PrePrio) =>
        /\ Accepted
        /\ ctx.DevicePortConfig = ev.cfg
        /\ ctx.DevicePortConfigPrio = EvPrio

\* a Modify took over from another key of its own precedence
C8_Witness ==
    /\ IsModify /\ Accepted
    /\ PrePrio # 0 /\ EvPrio = PrePrio
    /\ PreOwned /\ PreOwnerKey # ev.key
    /\ ev.cfg # ev.pre.DevicePortConfig

\* C9: an accepted Modify whose payload equals the active configuration
\* makes no DHCP call and leaves the active configuration unchanged, while
\* the active precedence is set to the precedence of the event.
C9_EqualPayloadNoDhcp ==
    (IsModify /\ Accepted /\ ev.cfg = ev.pre.DevicePortConfig) =>
        /\ ev.calls.dhcp = <<>>
        /\ ctx.DevicePortConfig = ev.pre.DevicePortConfig
        /\ ctx.DevicePortConfigPrio = EvPrio

\* an equal payload from a higher-priority source changed the precedence
C9_Witness ==
    /\ IsModify /\ Accepted
    /\ ev.cfg = ev.pre.DevicePortConfig
    /\ ev.cfg # EmptyPortConfig
    /\ PrePrio # 0 /\ EvPrio # PrePrio
    /\ ctx.DevicePortConfigPrio = EvPrio

\* C10 as stated: an accepted Modify whose payload equals the active
\* configuration does not invoke the status projector.
C10_AsStated ==
    (IsModify /\ Accepted /\ ev.cfg = ev.pre.DevicePortConfig) =>
        ev.calls.proj = <<>>

\* C10, amended: an accepted Modify whose payload equals the active
\* configuration still invokes the status projector, once, with the payload
\* and the current status; only the DHCP call and the assignment of the
\* configuration are skipped.
C10_EqualPayloadStillProjects ==
    (IsModify /\ Accepted /\ ev.cfg = ev.pre.DevicePortConfig) =>
        /\ Len(ev.calls.proj) = 1
        /\ ev.calls.proj[1].config = ev.cfg
        /\ ev.calls.proj[1].old = ev.pre.DeviceNetworkStatus

\* an equal payload was projected again, and the status changed
C10_Witness ==
    /\ IsModify /\ Accepted
    /\ ev.cfg = ev.pre.DevicePortConfig
    /\ PrePrio # 0
    /\ Len(ev.calls.proj) = 1
    /\ ctx.DeviceNetworkStatus # ev.pre.DeviceNetworkStatus

\* the positions of a step in the order of the event's calls and writes
Positions(step) == {i \in 1..Len(ev.calls.order) : ev.calls.order[i] = step}

\* every `first` step of the event precedes every `second` step
Precedes(first, second) ==
    \A i \in Positions(first), j \in Positions(second) : i < j

\* C11: every accepted Modify invokes the status projector exactly once,
\* after the active configuration was updated, with the active
\* configuration and the current active status as arguments; a rejected
\* Modify does not invoke it.  (So the accepted Modify that follows a
\* failed projection projects again.)
C11_ProjectsOncePerAcceptedModify ==
    IsModify =>
        /\ Accepted =>
               /\ Len(ev.calls.proj) = 1
               /\ Cardinality(Positions("MakeDeviceNetworkStatus")) = 1
               /\ ev.calls.proj[1].config = ctx.DevicePortConfig
               /\ ev.calls.proj[1].config = ev.cfg
               /\ ev.calls.proj[1].old = ev.pre.DeviceNetworkStatus
               /\ Precedes("DevicePortConfig", "MakeDeviceNetworkStatus")
               /\ Precedes("MakeDeviceNetworkStatus", "DeviceNetworkStatus")
        /\ Ignored =>
               /\ ev.calls.proj = <<>>
               /\ Positions("MakeDeviceNetworkStatus") = {}

\* an accepted Modify replaced the configuration and then projected from
\* the new one
C11_Witness ==
    /\ IsModify /\ Accepted
    /\ ev.cfg # ev.pre.DevicePortConfig
    /\ ev.pre.DevicePortConfig # EmptyPortConfig
    /\ ev.pre.DeviceNetworkStatus # EmptyStatus
    /\ Len(ev.calls.proj) = 1
    /\ ev.calls.proj[1].config = ev.cfg
    /\ Positions("DevicePortConfig") # {}

\* whether the availability notification (DoDNSUpdate) ran in the event
Notified == Positions("DoDNSUpdate") # {}

\* C12 as stated: if the status projector returns an error during an
\* accepted Modify, the active status is retained and there is no
\* availability notification, indicator signal or status publication.
C12_AsStated ==
    (IsModify /\ Accepted /\ Len(ev.calls.proj) = 1
        /\ ev.calls.proj[1].err) =>
        /\ ctx.DeviceNetworkStatus = ev.pre.DeviceNetworkStatus
        /\ ~Notified
        /\ ev.calls.led = <<>>
        /\ ev.calls.pubStatus = <<>>

\* C13: an accepted Modify whose payload differs from the active
\* configuration installs the payload and still projects the status, after
\* the one call of the DHCP collaborator; UpdateDhcpClient returns nothing
\* to the handler, so no outcome of it can change this.
C13_DhcpDoesNotBlock ==
    (IsModify /\ Accepted /\ ev.cfg # ev.pre.DevicePortConfig) =>
        /\ Len(ev.calls.dhcp) = 1
        /\ ctx.DevicePortConfig = ev.cfg
        /\ Len(ev.calls.proj) = 1
        /\ Precedes("UpdateDhcpClient", "MakeDeviceNetworkStatus")

\* a non-empty configuration was replaced by another, and projected
C13_Witness ==
    /\ IsModify /\ Accepted
    /\ ev.pre.DevicePortConfig # EmptyPortConfig
    /\ ev.cfg # ev.pre.DevicePortConfig
    /\ ev.cfg # EmptyPortConfig
    /\ ctx.DevicePortConfig = ev.cfg
    /\ Len(ev.calls.dhcp) = 1
    /\ Len(ev.calls.proj) = 1

\* C14: an accepted Modify calls the DHCP collaborator iff the candidate
\* differs from the active configuration, with (candidate, configuration
\* active before the event), before the active configuration is
\* overwritten and before the status projector is invoked.
C14_DhcpCall ==
    (IsModify /\ Accepted) =>
        /\ ev.calls.dhcp =
               IF ev.cfg # ev.pre.DevicePortConfig
               THEN <<[new |-> ev.cfg, old |-> ev.pre.DevicePortConfig]>>
               ELSE <<>>
        /\ Cardinality(Positions("UpdateDhcpClient")) = Len(ev.calls.dhcp)
        /\ Precedes("UpdateDhcpClient", "DevicePortConfig")
        /\ Precedes("UpdateDhcpClient", "MakeDeviceNetworkStatus")

\* the DHCP collaborator was called for a change between two non-empty
\* configurations
C14_Witness ==
    /\ IsModify /\ Accepted
    /\ ev.pre.DevicePortConfig # EmptyPortConfig
    /\ ev.cfg # EmptyPortConfig
    /\ ev.calls.dhcp = <<[new |-> ev.cfg, old |-> ev.pre.DevicePortConfig]>>
    /\ ev.cfg # ev.pre.DevicePortConfig
    /\ ev.calls.order[1] = "UpdateDhcpClient"

IsNotify == ev.op = "DoDNSUpdate"

\* how often the indicator was signalled with `code` in the event
Emitted(code) ==
    Cardinality({i \in 1..Len(ev.calls.led) : ev.calls.led[i] = code})

\* the usable-address count of the active status, and the cached count
\* before the event
NewCount == CountLocalAddrAnyNoLinkLocal(ctx.DeviceNetworkStatus)
OldCount == ev.pre.UsableAddressCount

\* C16: an availability notification emits signal 1 exactly once iff the
\* new usable-address count is 0 and the cached count is not; signal 2
\* exactly once iff the new count is not 0 and the cached count is; and no
\* signal otherwise.
C16_IndicatorSignals ==
    IsNotify =>
        /\ Emitted(1) = (IF NewCount = 0 /\ OldCount # 0 THEN 1 ELSE 0)
        /\ Emitted(2) = (IF NewCount # 0 /\ OldCount = 0 THEN 1 ELSE 0)
        /\ Len(ev.calls.led) = Emitted(1) + Emitted(2)

\* 0 to 2 addresses: signal 2, once, and 2 is cached
C16_Witness ==
    /\ IsNotify
    /\ OldCount = 0 /\ NewCount = 2
    /\ ev.calls.led = <<2>>
    /\ ctx.UsableAddressCount = 2

\* C17: every availability notification caches the usable-address count of
\* the active status, whether or not it emitted a signal, and sets the
\* dirty flag.
C17_CachesCountAndSetsDirty ==
    IsNotify =>
        /\ ctx.UsableAddressCount = NewCount
        /\ ctx.Changed
        /\ ctx.DeviceNetworkStatus = ev.pre.DeviceNetworkStatus

\* the count went from one non-zero value to another: no signal, and the
\* new count is cached
C17_Witness ==
    /\ IsNotify
    /\ OldCount # 0 /\ NewCount # 0 /\ NewCount # OldCount
    /\ ev.calls.led = <<>>
    /\ ctx.UsableAddressCount = NewCount
    /\ ~ev.pre.PubDeviceNetworkStatus.isNil

\* C18 as stated: every availability notification publishes the active
\* status exactly once, whatever the state.
C18_AsStated ==
    IsNotify => ev.calls.pubStatus = <<ctx.DeviceNetworkStatus>>

\* C18, amended: an availability notification publishes the active status
\* exactly once iff the context has a status publication
\* (PubDeviceNetworkStatus is not nil), whether or not the count crossed
\* the zero boundary; without one it publishes nothing.
C18_PublishesUnlessNil ==
    IsNotify =>
        IF ev.pre.PubDeviceNetworkStatus.isNil
        THEN /\ ev.calls.pubStatus = <<>>
             /\ ctx.PubDeviceNetworkStatus = ev.pre.PubDeviceNetworkStatus
        ELSE /\ ev.calls.pubStatus = <<ctx.DeviceNetworkStatus>>
             /\ ctx.PubDeviceNetworkStatus.global =
                    <<ctx.DeviceNetworkStatus>>

\* a publication without a signal
C18_Witness ==
    /\ IsNotify
    /\ ev.calls.led = <<>>
    /\ OldCount = NewCount
    /\ ev.calls.pubStatus = <<ctx.DeviceNetworkStatus>>

\* C19: an accepted Modify or Delete whose resulting status equals the
\* active status publishes nothing, signals nothing and leaves the cached
\* count, the dirty flag and the published status as they were.
C19_NoEffectWithoutStatusChange ==
    ((IsModify \/ IsDelete) /\ Accepted
        /\ ctx.DeviceNetworkStatus = ev.pre.DeviceNetworkStatus) =>
        /\ ~Notified
        /\ ev.calls.pubStatus = <<>>
        /\ ev.calls.led = <<>>
        /\ ctx.UsableAddressCount = ev.pre.UsableAddressCount
        /\ ctx.Changed = ev.pre.Changed
        /\ ctx.PubDeviceNetworkStatus = ev.pre.PubDeviceNetworkStatus

\* the same configuration again, projected to the same non-empty status
\* again, with a publication configured
C19_Witness ==
    /\ IsModify /\ Accepted
    /\ ev.cfg = ev.pre.DevicePortConfig
    /\ ev.cfg # EmptyPortConfig
    /\ Len(ev.calls.proj) = 1
    /\ ev.calls.proj[1].status = ev.pre.DeviceNetworkStatus
    /\ ev.pre.DeviceNetworkStatus # EmptyStatus
    /\ ev.pre.PubDeviceNetworkStatus.global = <<ev.pre.DeviceNetworkStatus>>
    /\ ev.calls.pubStatus = <<>>

\* what scenario A says of the state after its i-th event
ScenarioAExpected ==
    <<[ret |-> "done",    cfg |-> 1, prio |-> 3],
      [ret |-> "done",    cfg |-> 2, prio |-> 2],
      [ret |-> "done",    cfg |-> 3, prio |-> 1],
      [ret |-> "ignored", cfg |-> 3, prio |-> 1]>>

\* C20: scenario A: Global posts configA (accepted, precedence 3),
\* Override posts configB (accepted, precedence 2), Zedagent posts configC
\* (accepted, precedence 1), Global posts configD (rejected: configC and
\* precedence 1 stay).
C20_ScenarioA ==
    \A i \in 1..Len(ScenarioA) :
        (IsModify /\ ev.key = ScenarioA[i].key /\ ev.cfg = ScenarioA[i].cfg)
            => /\ ev.ret = ScenarioAExpected[i].ret
               /\ ctx.DevicePortConfig = ScenarioAExpected[i].cfg
               /\ ctx.DevicePortConfigPrio = ScenarioAExpected[i].prio

\* the end of the scenario: configD was rejected
C20_Witness ==
    /\ IsModify /\ Ignored
    /\ ev.key = ScenarioA[4].key /\ ev.cfg = ScenarioA[4].cfg
    /\ ctx.DevicePortConfig = ScenarioA[3].cfg
    /\ hist.owner # <<>>
    /\ hist.owner[1].key = ScenarioA[3].key

\* C21: the precedence of a key is 3 for "global", 2 for "override" and 1
\* for every other key, in both handlers: an accepted Modify leaves the
\* active precedence at that value, a Delete is accepted iff the active
\* precedence is that value, and so a Delete with the key of the accepted
\* Modify that installed the active configuration is accepted.
C21_SamePrecedenceInBothPaths ==
    /\ (IsModify /\ Accepted) =>
           ctx.DevicePortConfigPrio =
               (IF ev.key = "global" THEN 3
                ELSE IF ev.key = "override" THEN 2 ELSE 1)
    /\ IsDelete =>
           (Accepted <=> PrePrio =
               (IF ev.key = "global" THEN 3
                ELSE IF ev.key = "override" THEN 2 ELSE 1))
    /\ (IsDelete /\ PreOwned /\ PreOwnerKey = ev.key) => Accepted
    /\ (IsModify \/ IsDelete) => (Accepted \/ Ignored)

\* "global" deletes what "global" installed
C21_Witness ==
    /\ IsDelete /\ Accepted
    /\ ev.key = "global"
    /\ PreOwned /\ PreOwnerKey = "global"
    /\ PrePrio = 3

\* C29: while the active precedence is not 0, a Modify or a Delete whose
\* precedence is numerically larger (Override or Global at 1, Global at 2)
\* changes nothing and calls nothing; while it is 1, only an event of
\* precedence 1 changes the context.
C29_LockOut ==
    (IsModify \/ IsDelete) =>
        /\ (PrePrio # 0 /\ EvPrio > PrePrio) =>
               (Ignored /\ ctx = ev.pre /\ ev.calls = NoCalls)
        /\ (PrePrio = 1 /\ ctx # ev.pre) => EvPrio = 1

\* a Delete and a Modify of a reserved key were locked out at precedence 1
C29_Witness ==
    /\ PrePrio = 1
    /\ ev.key \in {"global", "override"}
    /\ Ignored
    /\ \/ IsDelete
       \/ IsModify /\ ev.cfg # ev.pre.DevicePortConfig
    /\ ev.pre.DevicePortConfig # EmptyPortConfig

\* C30: a Modify never changes a non-zero active precedence to a larger
\* value nor to 0; the active precedence goes from non-zero to 0 only by an
\* accepted Delete, and every other event leaves it non-zero and not larger.
C30_PrecedenceNonIncreasing ==
    ((IsModify \/ IsDelete) /\ PrePrio # 0) =>
        IF IsDelete /\ Accepted
        THEN ctx.DevicePortConfigPrio = 0
        ELSE /\ ctx.DevicePortConfigPrio # 0
             /\ ctx.DevicePortConfigPrio <= PrePrio

\* the precedence went down from 3 to 1 by a Modify
C30_Witness ==
    /\ IsModify /\ Accepted
    /\ PrePrio = 3
    /\ ctx.DevicePortConfigPrio = 1
    /\ ev.preHist.modifyAccepted

IsDNCModify == ev.op = "DNCModify"
IsDNCDelete == ev.op = "DNCDelete"

\* the event carries the registered manufacturer/model key
KeyMatches == ev.key = ev.pre.ManufacturerModel

\* the event hands HandleDPCModify what the legacy path has published,
\* under the key it was published with
LegacyDelivery ==
    /\ IsModify
    /\ ev.key = PublishedKey
    /\ ev.pre.PubDevicePortConfig = <<ev.cfg>>

\* C22 as stated: a configuration of the legacy path is arbitrated at
\* precedence 1 and so accepted whatever the active precedence is.
C22_AsStated ==
    LegacyDelivery => (Accepted /\ ctx.DevicePortConfigPrio = 1)

\* C22, amended: a configuration of the legacy path is published under the
\* reserved key "global" and so arbitrated at precedence 3: it is accepted
\* iff the active precedence is 0 or 3, and ignored, with the context
\* unchanged, while the active precedence is 1 or 2.
C22_LegacyArbitratedAsGlobal ==
    LegacyDelivery =>
        /\ Accepted <=> PrePrio \in {0, 3}
        /\ Accepted => /\ ctx.DevicePortConfigPrio = 3
                       /\ ctx.DevicePortConfig = ev.cfg
        /\ PrePrio \in {1, 2} =>
               (Ignored /\ ctx = ev.pre /\ ev.calls = NoCalls)

\* the published configuration was ignored at active precedence 1
C22_Witness ==
    /\ LegacyDelivery
    /\ Ignored
    /\ PrePrio = 1
    /\ ev.cfg # ev.pre.DevicePortConfig
    /\ ev.pre.DeviceNetworkConfig = [Uplink |-> ev.cfg]

\* C23: HandleDNCModify and HandleDNCDelete with a key other than the
\* registered one leave the whole context as it is (the raw configuration,
\* the publications, the effective state) and publish nothing.
C23_OtherModelKeyIgnored ==
    ((IsDNCModify \/ IsDNCDelete) /\ ~KeyMatches) =>
        /\ Ignored
        /\ ctx = ev.pre
        /\ ev.calls = NoCalls

\* a Modify with another key, whose configuration would have been stored
\* and published
C23_Witness ==
    /\ IsDNCModify /\ ~KeyMatches
    /\ Ignored
    /\ ev.cfg # ev.pre.DeviceNetworkConfig
    /\ MakeDevicePortConfig(ev.cfg) # OldPublishedConfig(ev.pre)
    /\ ev.pre.PubDevicePortConfig # Nil

\* C24: HandleDNCModify with the registered key stores the raw
\* configuration, and publishes the rebuilt PortConfig exactly once iff it
\* differs from the PortConfig last published (the empty one if there is
\* none); otherwise it publishes nothing.
C24_LegacyModifyPublishesOnChange ==
    (IsDNCModify /\ KeyMatches) =>
        /\ Accepted
        /\ ctx.DeviceNetworkConfig = ev.cfg
        /\ IF MakeDevicePortConfig(ev.cfg) # OldPublishedConfig(ev.pre)
           THEN /\ ev.calls.pubConfig = <<MakeDevicePortConfig(ev.cfg)>>
                /\ ctx.PubDevicePortConfig = <<MakeDevicePortConfig(ev.cfg)>>
           ELSE /\ ev.calls.pubConfig = <<>>
                /\ ctx.PubDevicePortConfig = ev.pre.PubDevicePortConfig

\* the configuration that is already published is posted again: nothing
\* is published
C24_Witness ==
    /\ IsDNCModify /\ KeyMatches
    /\ ev.pre.PubDevicePortConfig = <<MakeDevicePortConfig(ev.cfg)>>
    /\ MakeDevicePortConfig(ev.cfg) # EmptyPortConfig
    /\ ev.calls.pubConfig = <<>>

\* C25: HandleDNCDelete with the registered key does what HandleDNCModify
\* does with the empty raw configuration: it stores the empty raw
\* configuration and publishes the PortConfig rebuilt from it iff that
\* differs from the last published one; the active precedence, the active
\* configuration and the active status stay.
C25_LegacyDeleteIsModifyWithDefault ==
    (IsDNCDelete /\ KeyMatches) =>
        /\ Accepted
        /\ ctx.DeviceNetworkConfig = EmptyRawConfig
        /\ ctx = HandleDNCModifyResult(ev.pre, ev.key, EmptyRawConfig).ctx
        /\ ev.calls.pubConfig =
               (IF OldPublishedConfig(ev.pre)
                       # MakeDevicePortConfig(EmptyRawConfig)
                THEN <<MakeDevicePortConfig(EmptyRawConfig)>> ELSE <<>>)
        /\ ctx.DevicePortConfigPrio = ev.pre.DevicePortConfigPrio
        /\ ctx.DevicePortConfig = ev.pre.DevicePortConfig
        /\ ctx.DeviceNetworkStatus = ev.pre.DeviceNetworkStatus
        /\ ev.calls.dhcp = <<>>

\* the legacy Delete published the default while the engine held a
\* configuration at a non-zero precedence
C25_Witness ==
    /\ IsDNCDelete /\ KeyMatches
    /\ ev.pre.PubDevicePortConfig # Nil
    /\ OldPublishedConfig(ev.pre) # EmptyPortConfig
    /\ ev.calls.pubConfig = <<EmptyPortConfig>>
    /\ ev.pre.DevicePortConfigPrio # 0
    /\ ctx.DevicePortConfigPrio = ev.pre.DevicePortConfigPrio
    /\ ctx.DevicePortConfig # EmptyPortConfig

\* C26: HandleDNCModify and HandleDNCDelete write none of the active
\* configuration, the active precedence, the active status, the cached
\* address count and the dirty flag, and call none of the engine's
\* collaborators.
C26_LegacyLeavesEffectiveState ==
    (IsDNCModify \/ IsDNCDelete) =>
        /\ ctx.DevicePortConfig = ev.pre.DevicePortConfig
        /\ ctx.DevicePortConfigPrio = ev.pre.DevicePortConfigPrio
        /\ ctx.DeviceNetworkStatus = ev.pre.DeviceNetworkStatus
        /\ ctx.UsableAddressCount = ev.pre.UsableAddressCount
        /\ ctx.Changed = ev.pre.Changed
        /\ ctx.PubDeviceNetworkStatus = ev.pre.PubDeviceNetworkStatus
        /\ ev.calls.dhcp = <<>> /\ ev.calls.proj = <<>>
        /\ ev.calls.led = <<>> /\ ev.calls.pubStatus = <<>>

\* a legacy Modify published a configuration other than the active one
\* and the active one stayed
C26_Witness ==
    /\ IsDNCModify /\ KeyMatches
    /\ ev.calls.pubConfig # <<>>
    /\ ev.calls.pubConfig[1] # ev.pre.DevicePortConfig
    /\ ev.pre.DevicePortConfigPrio # 0
    /\ ctx.DevicePortConfig = ev.pre.DevicePortConfig
    /\ ctx.DeviceNetworkStatus # EmptyStatus

\* what the handler as a function of the delivered event makes of the
\* context the activation p was delivered to
FrameResult(p) ==
    IF frames[p].op = "DPCModify"
    THEN HandleDPCModifyResult(frames[p].pre[1], frames[p].key,
                               frames[p].cfg, frames[p].projected)
    ELSE HandleDPCDeleteResult(frames[p].pre[1], frames[p].key)

\* a handler that returned has either completed the reconciliation or was
\* a no-op, and the context it returned on and the calls it made are those
\* a function of the context before, the event and the projector's result
\* gives
ReturnedAsFunction ==
    \A p \in Callers :
        Returned(p) =>
            /\ ~frames[p].overlapped
            /\ frames[p].ret \in {"done", "ignored"}
            /\ frames[p].ret = FrameResult(p).ret
            /\ frames[p].post = <<FrameResult(p).ctx>>
            /\ frames[p].calls = FrameResult(p).calls
            /\ frames[p].ret = "ignored" =>
                   (frames[p].post = frames[p].pre
                        /\ frames[p].calls = NoCalls)

\* C27: every collaborator call returning, every delivered Modify or Delete
\* returns, as a completed reconciliation or as a no-op, and (delivery
\* being serialized) the context after it is a function of the context
\* before it, the event and the collaborators' results.
C27_EveryEventReturns ==
    /\ []ReturnedAsFunction
    /\ \A p \in Callers : InFlight(p) ~> Returned(p)

\* a Modify completed and then a Delete of the same precedence completed
C27_Witness ==
    \E p, q \in Callers :
        /\ Returned(p) /\ Returned(q)
        /\ ~frames[p].overlapped /\ ~frames[q].overlapped
        /\ frames[p].op = "DPCModify" /\ frames[p].ret = "done"
        /\ frames[p].cfg # EmptyPortConfig
        /\ frames[p].dnStatus # EmptyStatus
        /\ frames[q].op = "DPCDelete" /\ frames[q].ret = "done"
        /\ frames[q].pre = frames[p].post
        /\ frames[q].calls.dhcp # <<>>

\* two Modify activations, hi of a higher priority than lo, have both
\* returned, hi had its Modify accepted, and the context holds the
\* precedence and the configuration of lo
LowerReplacedHigher(hi, lo) ==
    /\ Returned(hi) /\ Returned(lo)
    /\ frames[hi].op = "DPCModify" /\ frames[lo].op = "DPCModify"
    /\ PriorityOf(frames[hi].key) < PriorityOf(frames[lo].key)
    /\ frames[hi].ret = "done" /\ frames[lo].ret = "done"
    /\ ctx.DevicePortConfigPrio = PriorityOf(frames[lo].key)
    /\ ctx.DevicePortConfig = frames[lo].cfg
    /\ frames[lo].cfg # frames[hi].cfg

\* C28: a lower-priority configuration replaces a higher-priority one only
\* when the two HandleDPCModify calls were not serialized: under serialized
\* delivery that state is not reached.
C28_OnlyUnserialized ==
    \A hi, lo \in Callers :
        LowerReplacedHigher(hi, lo) =>
            (frames[hi].overlapped /\ frames[lo].overlapped)

\* both read active precedence 0, and Global wrote after Zedagent
C28_Witness ==
    \E hi, lo \in Callers :
        /\ LowerReplacedHigher(hi, lo)
        /\ frames[hi].key = "zedagent" /\ frames[lo].key = "global"
        /\ frames[hi].curPriority = 0 /\ frames[lo].curPriority = 0
        /\ frames[hi].overlapped /\ frames[lo].overlapped
        /\ ctx.DevicePortConfigPrio = 3

\* C32: after every completed event the cached usable-address count is the
\* usable-address count of the active status.
C32_CachedCountIsFresh ==
    ctx.UsableAddressCount =
        CountLocalAddrAnyNoLinkLocal(ctx.DeviceNetworkStatus)

\* an event replaced the status by one with another count
C32_Witness ==
    /\ IsModify /\ Accepted
    /\ CountLocalAddrAnyNoLinkLocal(ctx.DeviceNetworkStatus)
           # CountLocalAddrAnyNoLinkLocal(ev.pre.DeviceNetworkStatus)
    /\ ctx.UsableAddressCount # ev.pre.UsableAddressCount
    /\ ctx.UsableAddressCount # 0

\* C33: with a status publication in the context, what was last published
\* (if anything was) is the active status after every completed event, and
\* an event that changes the active status publishes the new one.
C33_PublishedIsActive ==
    ~ctx.PubDeviceNetworkStatus.isNil =>
        /\ ctx.PubDeviceNetworkStatus.global # Nil =>
               ctx.PubDeviceNetworkStatus.global = <<ctx.DeviceNetworkStatus>>
        /\ ctx.DeviceNetworkStatus # ev.pre.DeviceNetworkStatus =>
               ev.calls.pubStatus = <<ctx.DeviceNetworkStatus>>

\* the status changed with the same usable-address count, and was published
C33_Witness ==
    /\ IsModify /\ Accepted
    /\ ~ctx.PubDeviceNetworkStatus.isNil
    /\ ctx.DeviceNetworkStatus # ev.pre.DeviceNetworkStatus
    /\ ctx.UsableAddressCount = ev.pre.UsableAddressCount
    /\ ev.pre.PubDeviceNetworkStatus.global = <<ev.pre.DeviceNetworkStatus>>
    /\ ctx.PubDeviceNetworkStatus.global = <<ctx.DeviceNetworkStatus>>

\* C35: after every completed event, active precedence 0 implies that the
\* active configuration and the active status are the empty values.
C35_UnsetImpliesEmpty ==
    ctx.DevicePortConfigPrio = 0 =>
        /\ ctx.DevicePortConfig = EmptyPortConfig
        /\ ctx.DeviceNetworkStatus = EmptyStatus

\* a Delete took a configuration and a status away
C35_Witness ==
    /\ IsDelete /\ Accepted
    /\ ev.pre.DevicePortConfig # EmptyPortConfig
    /\ ev.pre.DeviceNetworkStatus # EmptyStatus
    /\ ctx.DevicePortConfigPrio = 0
    /\ ctx.DevicePortConfig = EmptyPortConfig

\* C36 as stated: after an accepted Delete the status is empty and the
\* cached count 0; a non-empty status before it means one publication, a
\* non-zero count before it means signal 1 once.
C36_AsStated ==
    (IsDelete /\ Accepted) =>
        /\ ctx.DeviceNetworkStatus = EmptyStatus
        /\ ctx.UsableAddressCount = 0
        /\ ev.pre.DeviceNetworkStatus # EmptyStatus =>
               ev.calls.pubStatus = <<EmptyStatus>>
        /\ ev.pre.UsableAddressCount # 0 => ev.calls.led = <<1>>

\* C36, amended: after an accepted Delete the active status is the empty
\* one and the cached count is 0, the projector not being called; if the
\* status before was not empty, the empty status is published once provided
\* the context has a status publication (nothing is published without one);
\* signal 1 is emitted once iff the cached count before was not 0.
C36_DeleteEmptiesStatus ==
    (IsDelete /\ Accepted) =>
        /\ ctx.DeviceNetworkStatus = EmptyStatus
        /\ ctx.UsableAddressCount
               = CountLocalAddrAnyNoLinkLocal(EmptyStatus)
        /\ ev.calls.proj = <<>>
        /\ ev.calls.pubStatus =
               (IF ev.pre.DeviceNetworkStatus # EmptyStatus
                      /\ ~ev.pre.PubDeviceNetworkStatus.isNil
                THEN <<EmptyStatus>> ELSE <<>>)
        /\ ev.calls.led =
               (IF ev.pre.UsableAddressCount # 0 THEN <<1>> ELSE <<>>)

\* a status with link-local addresses only was deleted: published, no
\* signal
C36_Witness ==
    /\ IsDelete /\ Accepted
    /\ ev.pre.DeviceNetworkStatus # EmptyStatus
    /\ ev.pre.UsableAddressCount = 0
    /\ ~ev.pre.PubDeviceNetworkStatus.isNil
    /\ ev.calls.pubStatus = <<EmptyStatus>>
    /\ ev.calls.led = <<>>

\* C37: the Delete just delivered, delivered once more, is ignored: it
\* leaves the context as it is and calls no collaborator; and a Delete
\* delivered while the active precedence is 0 is ignored.
C37_DeleteIdempotent ==
    IsDelete =>
        /\ HandleDPCDeleteResult(ctx, ev.key) = Outcome(ctx, "ignored", NoCalls)
        /\ Accepted => ctx.DevicePortConfigPrio = 0
        /\ PrePrio = 0 => (Ignored /\ ctx = ev.pre /\ ev.calls = NoCalls)

\* the second of two Deletes with the same key
C37_Witness ==
    /\ IsDelete /\ Ignored
    /\ PrePrio = 0
    /\ ev.preHist.modifyAccepted
    /\ ev.pre.Changed
    /\ ev.calls = NoCalls

\* C38: the legacy Modify just delivered with the registered key, delivered
\* once more, publishes nothing and leaves the context as it is, the raw
\* configuration being stored again: the two together publish at most once.
\* A legacy Delete with the registered key publishes nothing when nothing,
\* or the PortConfig built from the empty raw configuration, was published.
C38_LegacyIdempotent ==
    /\ (IsDNCModify /\ KeyMatches) =>
           /\ HandleDNCModifyResult(ctx, ev.key, ev.cfg).calls = NoCalls
           /\ HandleDNCModifyResult(ctx, ev.key, ev.cfg).ctx = ctx
           /\ HandleDNCModifyResult(ctx, ev.key, ev.cfg).ret = "done"
           /\ ctx.DeviceNetworkConfig = ev.cfg
           /\ Len(ev.calls.pubConfig) <= 1
    /\ (IsDNCDelete /\ KeyMatches
            /\ \/ ev.pre.PubDevicePortConfig = Nil
               \/ ev.pre.PubDevicePortConfig =
                      <<MakeDevicePortConfig(EmptyRawConfig)>>) =>
           /\ ev.calls.pubConfig = <<>>
           /\ ctx.PubDevicePortConfig = ev.pre.PubDevicePortConfig

\* the same legacy Modify a second time: stored again, not published again
C38_Witness ==
    /\ IsDNCModify /\ KeyMatches
    /\ ev.pre.DeviceNetworkConfig = ev.cfg
    /\ ev.cfg # EmptyRawConfig
    /\ ev.pre.PubDevicePortConfig = <<MakeDevicePortConfig(ev.cfg)>>
    /\ ev.calls.pubConfig = <<>>
    /\ ctx = ev.pre

\* the signal emitted before the i-th signal of the event, if any
SignalBefore(i) ==
    IF i = 1 THEN ev.preHist.lastSignal ELSE <<ev.calls.led[i-1]>>

\* C31: the indicator signals alternate, beginning with 2: the first
\* signal ever emitted is 2, and every later signal differs from the one
\* emitted before it.
C31_SignalsAlternate ==
    \A i \in 1..Len(ev.calls.led) :
        /\ ev.calls.led[i] \in {1, 2}
        /\ SignalBefore(i) = Nil => ev.calls.led[i] = 2
        /\ SignalBefore(i) # Nil => ev.calls.led[i] # SignalBefore(i)[1]

\* signal 2 again, after a signal 1
C31_Witness ==
    /\ IsModify
    /\ ev.calls.led = <<2>>
    /\ ev.preHist.lastSignal = <<1>>
    /\ hist.lastSignal = <<2>>

\* the new-configuration argument of the call before the i-th
\* UpdateDhcpClient call of the event; before the first call ever, the
\* configuration the context is constructed with
DhcpBefore(i) ==
    IF i > 1 THEN ev.calls.dhcp[i-1].new
    ELSE IF ev.preHist.lastDhcp = Nil THEN EmptyPortConfig
    ELSE ev.preHist.lastDhcp[1]

\* C34: the old argument of every UpdateDhcpClient call is the new argument
\* of the call before it (the initial configuration for the first), no
\* call has equal arguments, the new argument of the last call of an event
\* is the active configuration after it, and the active configuration is
\* always the new argument of the last call.
C34_DhcpChain ==
    /\ \A i \in 1..Len(ev.calls.dhcp) :
           /\ ev.calls.dhcp[i].old = DhcpBefore(i)
           /\ ev.calls.dhcp[i].new # ev.calls.dhcp[i].old
    /\ ev.calls.dhcp # <<>> =>
           ev.calls.dhcp[Len(ev.calls.dhcp)].new = ctx.DevicePortConfig
    /\ ctx.DevicePortConfig =
           (IF hist.lastDhcp = Nil THEN EmptyPortConfig
            ELSE hist.lastDhcp[1])

\* a Delete's call takes up where the call of a Modify left
C34_Witness ==
    /\ IsDelete /\ Accepted
    /\ ev.preHist.lastDhcp # Nil
    /\ ev.preHist.lastDhcp[1] # EmptyPortConfig
    /\ ev.calls.dhcp = <<[new |-> EmptyPortConfig,
                          old |-> ev.preHist.lastDhcp[1]]>>

====
